---------------------------- MODULE Spec2Model ----------------------------
(***************************************************************************)
(* A model of azul's CityGML tree walkers (src/src/Parser.hpp) and of the  *)
(* Parser's regeneration driver.                                           *)
(*                                                                         *)
(* A document is the sequence of nodes that pugi::xml_node::traverse hands *)
(* to xml_tree_walker::for_each: the nodes of the traversed subtree in     *)
(* pre-order, each with the walker's depth() at that call (0 for the       *)
(* children of the traversed node).  A node is its position in that        *)
(* sequence.  An element name is the sequence of its colon-separated       *)
(* pieces: "bldg:RoofSurface" is <<"bldg", "RoofSurface">>, "Door" is      *)
(* <<"Door">>, "a:b:Road" is <<"a", "b", "Road">>.                         *)
(***************************************************************************)
EXTENDS Integers, Sequences, FiniteSets, TLC

VARIABLES
  doc,             \* the nodes handed to for_each so far: [name, depth, text]
  polygonsByType,  \* PolygonsWalker::polygonsByType: key -> list of nodes
  inDefinedType,   \* PolygonsWalker::inDefinedType ("" = undefined)
  depthToStop,     \* PolygonsWalker::depthToStop
  points,          \* PointsWalker::points
  cout,            \* the lines PointsWalker has written to std::cout
  thrown,          \* the exception that left for_each ("" = none)
  exteriorRing,    \* RingsWalker::exteriorRing (0 = the null node)
  interiorRings,   \* RingsWalker::interiorRings
  objects,         \* ObjectsWalker::objects
  parserObjects,   \* Parser::objects
  regenerations,   \* regenerateGeometries calls since the last parse or clear
  triangulation,   \* the Triangulation of the polygon being triangulated
  info,            \* FaceBaseWithInfo::info() of every face
  ringsToFlood,    \* the interior rings not flooded yet, in insertion order
  floodOf,         \* the ring whose flood is running (1 = the exterior ring)
  frontier,        \* the faces the running flood has reached and not marked
  keptFaces,       \* the faces emitted as triangles
  stage            \* "none", "flood" or "done"

polygonsVars == <<polygonsByType, inDefinedType, depthToStop>>
pointsVars   == <<points, cout, thrown>>
ringsVars    == <<exteriorRing, interiorRings>>
objectsVars  == <<objects>>
parserVars   == <<parserObjects, regenerations>>
triangulationVars ==
  <<triangulation, info, ringsToFlood, floodOf, frontier, keptFaces, stage>>

vars == <<doc, polygonsVars, pointsVars, ringsVars, objectsVars, parserVars,
          triangulationVars>>

\* The walkers and the Parser as constructed, for the runs that do not use them.
NoPolygonsWalker == polygonsByType = <<>> /\ inDefinedType = "" /\ depthToStop = 0
NoPointsWalker   == points = <<>> /\ cout = <<>> /\ thrown = ""
NoRingsWalker    == exteriorRing = 0 /\ interiorRings = <<>>
NoObjectsWalker  == objects = <<>>
NoParser         == parserObjects = <<>> /\ regenerations = 0
NoTriangulation  ==
  /\ triangulation = <<>> /\ info = <<>> /\ ringsToFlood = <<>>
  /\ floodOf = 0 /\ frontier = {} /\ keptFaces = {} /\ stage = "none"

(***************************************************************************)
(* Bounds of the model.                                                    *)
(***************************************************************************)
MaxNodes == 4    \* nodes of a document walked by PolygonsWalker
MaxDepth == 2    \* deepest depth() in such a document
MaxElements == 2 \* elements of a ring walked by PointsWalker
MaxTokens == 4   \* tokens in the text of one position element
MaxRingNodes == 4    \* nodes of a Polygon subtree walked by RingsWalker
MaxObjectNodes == 3  \* nodes of a document walked by ObjectsWalker
MaxObjects == 2      \* objects of a parsed dataset
MaxPolygons == 1     \* polygons of one surface type in an object
MaxRegenerations == 2  \* regenerateGeometries calls counted after a parse
MaxWalked == 2   \* nodes of a document walked by the four walkers together

(***************************************************************************)
(* Tree shape: what traverse() can hand over next.                         *)
(***************************************************************************)
Last(s) == s[Len(s)]

\* depth() of the next node: at most one deeper than the node just visited.
NextDepths(d) ==
  IF Len(d) = 0 THEN {0} ELSE 0 .. (IF Last(d).depth < MaxDepth THEN Last(d).depth + 1 ELSE MaxDepth)

Node(name, depth, text) == [name |-> name, depth |-> depth, text |-> text]

(***************************************************************************)
(* Name handling shared by PolygonsWalker and ObjectsWalker:               *)
(*   namespaceSeparator = strchr(nodeType, ':');                           *)
(*   if (namespaceSeparator != NULL) nodeType = namespaceSeparator+1;      *)
(***************************************************************************)
\* The name compared as it is written, prefix included.
QualifiedName(name) == name

StripNamespace(name) == IF Len(name) > 1 THEN Tail(name) ELSE name

\* strcmp(nodeType, s) == 0
StrEq(nodeType, s) == nodeType = <<s>>

(***************************************************************************)
(* PolygonsWalker                                                          *)
(***************************************************************************)
IsDefinedTypeName(nodeType) ==
  \/ StrEq(nodeType, "Door")
  \/ StrEq(nodeType, "GroundSurface")
  \/ StrEq(nodeType, "RoofSurface")
  \/ StrEq(nodeType, "Window")

IsPolygonName(nodeType) ==
  \/ StrEq(nodeType, "Polygon")
  \/ StrEq(nodeType, "Triangle")

\* A variant of the depth-exit test that lets the type survive a sibling at
\* the depth where it was entered.
DepthExitStrict(type, depth, stop) ==
  IF type # "" /\ depth < stop THEN "" ELSE type

\* if (inDefinedType != "" && depth() <= depthToStop) inDefinedType = "";
DepthExit(type, depth, stop) ==
  IF type # "" /\ depth <= stop THEN "" ELSE type

\* polygonsByType[key].push_front(node)
PushFront(map, key, node) ==
  IF key \in DOMAIN map
    THEN [map EXCEPT ![key] = <<node>> \o @]
    ELSE map @@ (key :> <<node>>)

\* polygonsByType[key].push_back(node): std::map::operator[] creates the key.
PushBack(map, key, node) ==
  IF key \in DOMAIN map
    THEN [map EXCEPT ![key] = Append(@, node)]
    ELSE map @@ (key :> <<node>>)

\* The exit test moved behind the name tests: a surface element clears the
\* type it has just set, and a Polygon is filed before the stale type is dropped.
PolygonsWalker_for_each_ExitLast(node, name, depth) ==
  LET nodeType == StripNamespace(name)
  IN  IF IsDefinedTypeName(nodeType)
        THEN /\ inDefinedType' = ""
             /\ depthToStop' = depth
             /\ UNCHANGED polygonsByType
        ELSE IF IsPolygonName(nodeType)
          THEN /\ inDefinedType' = DepthExit(inDefinedType, depth, depthToStop)
               /\ polygonsByType' = PushBack(polygonsByType, inDefinedType, node)
               /\ UNCHANGED depthToStop
          ELSE /\ inDefinedType' = DepthExit(inDefinedType, depth, depthToStop)
               /\ UNCHANGED <<polygonsByType, depthToStop>>

PolygonsWalker_for_each(node, name, depth) ==
  LET nodeType == StripNamespace(name)
      type     == DepthExit(inDefinedType, depth, depthToStop)
  IN  IF IsDefinedTypeName(nodeType)
        THEN /\ inDefinedType' = nodeType[1]
             /\ depthToStop' = depth
             /\ UNCHANGED polygonsByType
        ELSE IF IsPolygonName(nodeType)
          THEN /\ inDefinedType' = type
               /\ polygonsByType' = PushBack(polygonsByType, type, node)
               /\ UNCHANGED depthToStop
          ELSE /\ inDefinedType' = type
               /\ UNCHANGED <<polygonsByType, depthToStop>>

\* The element names the PolygonsWalker is run on.
PolygonsNames ==
  { <<"bldg", "RoofSurface">>, <<"bldg", "Window">>, <<"bldg", "GroundSurface">>,
    <<"Door">>, <<"gml", "Polygon">>, <<"gml", "Triangle">>,
    <<"gml", "surfaceMember">> }

\* Fresh walker; depthToStop has no initialiser.
InitPolygons ==
  /\ doc = <<>>
  /\ polygonsByType = <<>>
  /\ inDefinedType = ""
  /\ depthToStop \in 0 .. MaxDepth
  /\ NoPointsWalker /\ NoRingsWalker /\ NoObjectsWalker /\ NoParser
  /\ NoTriangulation

\* traverse() hands the next node of the subtree to for_each.
PolygonsVisit ==
  /\ Len(doc) < MaxNodes
  /\ \E name \in PolygonsNames, depth \in NextDepths(doc) :
       /\ doc' = Append(doc, Node(name, depth, <<>>))
       /\ PolygonsWalker_for_each(Len(doc) + 1, name, depth)
  /\ UNCHANGED <<pointsVars, ringsVars, objectsVars, parserVars,
               triangulationVars>>

NextPolygons == PolygonsVisit

SpecPolygons == InitPolygons /\ [][NextPolygons]_vars

(***************************************************************************)
(* PointsWalker                                                            *)
(*                                                                         *)
(* The text of an element (node.child_value()) is a sequence of symbols:   *)
(* " " is white space, "0".."9" are digits, "e99" stands for an exponent   *)
(* part that takes the literal out of the range of float, and any other    *)
(* symbol is a character that belongs to no numeric literal.               *)
(***************************************************************************)
IsDigit(c) == c \in {"0", "1", "2", "3", "4", "5", "6", "7", "8", "9"}

DigitValue(c) ==
  CASE c = "0" -> 0 [] c = "1" -> 1 [] c = "2" -> 2 [] c = "3" -> 3 [] c = "4" -> 4
    [] c = "5" -> 5 [] c = "6" -> 6 [] c = "7" -> 7 [] c = "8" -> 8 [] c = "9" -> 9

\* The length of the longest run of symbols at the head of s that satisfy /
\* do not satisfy being white space, resp. being a digit.
RECURSIVE SpaceRun(_)
SpaceRun(s) == IF s # <<>> /\ Head(s) = " " THEN 1 + SpaceRun(Tail(s)) ELSE 0

RECURSIVE WordRun(_)
WordRun(s) == IF s # <<>> /\ Head(s) # " " THEN 1 + WordRun(Tail(s)) ELSE 0

RECURSIVE DigitRun(_)
DigitRun(s) == IF s # <<>> /\ IsDigit(Head(s)) THEN 1 + DigitRun(Tail(s)) ELSE 0

RECURSIVE Decimal(_)
Decimal(s) == IF s = <<>> THEN 0 ELSE 10 * Decimal(SubSeq(s, 1, Len(s) - 1)) + DigitValue(Last(s))

Drop(s, n) == SubSeq(s, n + 1, Len(s))

\* iss >> substring: skips white space and reads up to the next white space;
\* substring is empty when only white space was left.
Extract(rest) ==
  LET word == Drop(rest, SpaceRun(rest))
      n    == WordRun(word)
  IN  [substring |-> SubSeq(word, 1, n), rest |-> Drop(word, n)]

\* std::stof(substring): converts the longest numeric literal at the head of
\* the string; std::invalid_argument when there is none, std::out_of_range
\* when its value is out of the range of float.
Stof(substring) ==
  LET n == DigitRun(substring)
  IN  IF n = 0
        THEN [what |-> "invalid_argument"]
        ELSE IF n < Len(substring) /\ substring[n + 1] = "e99"
          THEN [what |-> "out_of_range"]
          ELSE [what |-> "value", value |-> Decimal(SubSeq(substring, 1, n))]

\* ParsedPoint(): value-initialised.
ParsedPoint == <<0, 0, 0>>

\* A variant of the coordinate assignment that always writes coordinate 0.
StoreCoordinateFirst(pts, currentCoordinate, value) ==
  [pts EXCEPT ![Len(pts)][1] = value]

\* points.back().coordinates[currentCoordinate] = value
StoreCoordinate(pts, currentCoordinate, value) ==
  [pts EXCEPT ![Len(pts)][currentCoordinate + 1] = value]

\* The loop with a new point pushed for every token, whatever the value of
\* currentCoordinate.
RECURSIVE ReadCoordinatesPushEach(_, _, _)
ReadCoordinatesPushEach(rest, pts, currentCoordinate) ==
  LET e == Extract(rest)
  IN  IF Len(e.substring) > 0
        THEN LET pushed == Append(pts, ParsedPoint)
                 f      == Stof(e.substring)
             IN  IF f.what = "value"
                   THEN ReadCoordinatesPushEach(e.rest,
                                        StoreCoordinate(pushed, currentCoordinate, f.value),
                                        (currentCoordinate + 1) % 3)
                   ELSE [left |-> f.what, points |-> pushed,
                         currentCoordinate |-> currentCoordinate]
        ELSE [left |-> "end", points |-> pts, currentCoordinate |-> currentCoordinate]

\* The do ... while (iss) loop of for_each, from the stream's remaining text:
\* how the loop is left ("end": the stream failed; or the exception stof
\* threw) with the points and currentCoordinate at that moment.
RECURSIVE ReadCoordinates(_, _, _)
ReadCoordinates(rest, pts, currentCoordinate) ==
  LET e == Extract(rest)
  IN  IF Len(e.substring) > 0
        THEN LET pushed == IF currentCoordinate = 0 THEN Append(pts, ParsedPoint) ELSE pts
                 f      == Stof(e.substring)
             IN  IF f.what = "value"
                   THEN ReadCoordinates(e.rest,
                                        StoreCoordinate(pushed, currentCoordinate, f.value),
                                        (currentCoordinate + 1) % 3)
                   ELSE [left |-> f.what, points |-> pushed,
                         currentCoordinate |-> currentCoordinate]
        ELSE [left |-> "end", points |-> pts, currentCoordinate |-> currentCoordinate]

\* strcmp(node.name(), "gml:pos") == 0 || strcmp(node.name(), "gml:posList") == 0
IsPositionName(name) == name = <<"gml", "pos">> \/ name = <<"gml", "posList">>

InvalidPoint == "Invalid point: ... Skipping..."
WrongNumber  == "Wrong number of coordinates: not divisible by 3"

\* for_each with a break in place of the return of the catch block: the loop
\* is left and the count test follows.
PointsWalker_for_each_Break(name, text) ==
  IF IsPositionName(name)
    THEN LET r == ReadCoordinates(text, points, 0)
         IN  CASE r.left = "invalid_argument" ->
                    /\ points' = <<>>
                    /\ cout' = IF r.currentCoordinate # 0
                                 THEN cout \o <<InvalidPoint, WrongNumber>>
                                 ELSE Append(cout, InvalidPoint)
                    /\ thrown' = ""
               [] r.left = "out_of_range" ->
                    /\ points' = r.points
                    /\ thrown' = "out_of_range"
                    /\ UNCHANGED cout
               [] r.left = "end" ->
                    /\ points' = IF r.currentCoordinate # 0 THEN <<>> ELSE r.points
                    /\ cout' = IF r.currentCoordinate # 0 THEN Append(cout, WrongNumber) ELSE cout
                    /\ thrown' = ""
    ELSE UNCHANGED pointsVars

\* for_each that drops the points of the failing element only: the points of
\* the earlier elements stay.
PointsWalker_for_each_KeepEarlier(name, text) ==
  IF IsPositionName(name)
    THEN LET r == ReadCoordinates(text, points, 0)
         IN  CASE r.left = "invalid_argument" ->
                    /\ points' = points
                    /\ cout' = Append(cout, InvalidPoint)
                    /\ thrown' = ""
               [] r.left = "out_of_range" ->
                    /\ points' = r.points
                    /\ thrown' = "out_of_range"
                    /\ UNCHANGED cout
               [] r.left = "end" ->
                    /\ points' = IF r.currentCoordinate # 0 THEN points ELSE r.points
                    /\ cout' = IF r.currentCoordinate # 0 THEN Append(cout, WrongNumber) ELSE cout
                    /\ thrown' = ""
    ELSE UNCHANGED pointsVars

\* The catch block handles std::invalid_argument only: std::out_of_range
\* leaves for_each, and traverse, as an exception.
PointsWalker_for_each(name, text) ==
  IF IsPositionName(name)
    THEN LET r == ReadCoordinates(text, points, 0)
         IN  CASE r.left = "invalid_argument" ->
                    /\ points' = <<>>
                    /\ cout' = Append(cout, InvalidPoint)
                    /\ thrown' = ""
               [] r.left = "out_of_range" ->
                    /\ points' = r.points
                    /\ thrown' = "out_of_range"
                    /\ UNCHANGED cout
               [] r.left = "end" ->
                    /\ points' = IF r.currentCoordinate # 0 THEN <<>> ELSE r.points
                    /\ cout' = IF r.currentCoordinate # 0 THEN Append(cout, WrongNumber) ELSE cout
                    /\ thrown' = ""
    ELSE UNCHANGED pointsVars

\* The tokens the texts are made of: "1", "2", "x", "1x", "1e99".
Tokens == { <<"1">>, <<"2">>, <<"x">>, <<"1", "x">>, <<"1", "e99">> }

TokenLists(S, n) == UNION { [1 .. k -> S] : k \in 0 .. n }

RECURSIVE Join(_)
Join(toks) ==
  IF toks = <<>> THEN <<>>
  ELSE IF Len(toks) = 1 THEN toks[1]
  ELSE toks[1] \o <<" ">> \o Join(Tail(toks))

\* The elements of a ring: position elements with any text, and an element
\* of another name holding coordinates.
PointsElements ==
  { Node(name, 0, Join(t)) :
      name \in { <<"gml", "pos">>, <<"gml", "posList">> }, t \in TokenLists(Tokens, MaxTokens) }
  \cup { Node(<<"pos">>, 0, Join(t)) : t \in TokenLists({ <<"1">>, <<"2">> }, 3) }

InitPoints ==
  /\ doc = <<>>
  /\ points = <<>> /\ cout = <<>> /\ thrown = ""
  /\ NoPolygonsWalker /\ NoRingsWalker /\ NoObjectsWalker /\ NoParser
  /\ NoTriangulation

\* traverse() hands the next element of the ring to for_each; an exception
\* ends the traversal.
PointsVisit ==
  /\ thrown = ""
  /\ Len(doc) < MaxElements
  /\ \E n \in PointsElements :
       /\ doc' = Append(doc, n)
       /\ PointsWalker_for_each(n.name, n.text)
  /\ UNCHANGED <<polygonsVars, ringsVars, objectsVars, parserVars,
               triangulationVars>>

NextPoints == PointsVisit

SpecPoints == InitPoints /\ [][NextPoints]_vars

(***************************************************************************)
(* RingsWalker                                                             *)
(***************************************************************************)
\* for_each with the interior branch assigning instead of appending.
RingsWalker_for_each_LastInterior(node, name) ==
  IF name = <<"gml", "exterior">>
    THEN exteriorRing' = node /\ UNCHANGED interiorRings
  ELSE IF name = <<"gml", "interior">>
    THEN interiorRings' = <<node>> /\ UNCHANGED exteriorRing
  ELSE UNCHANGED ringsVars

RingsWalker_for_each(node, name) ==
  IF name = <<"gml", "exterior">>
    THEN exteriorRing' = node /\ UNCHANGED interiorRings
  ELSE IF name = <<"gml", "interior">>
    THEN interiorRings' = Append(interiorRings, node) /\ UNCHANGED exteriorRing
  ELSE UNCHANGED ringsVars

\* The element names the RingsWalker is run on.
RingsNames ==
  { <<"gml", "exterior">>, <<"gml", "interior">>, <<"gml", "LinearRing">>,
    <<"gml", "posList">>, <<"exterior">> }

\* Fresh walker: a default-constructed xml_node is the null node.
InitRings ==
  /\ doc = <<>>
  /\ exteriorRing = 0 /\ interiorRings = <<>>
  /\ NoPolygonsWalker /\ NoPointsWalker /\ NoObjectsWalker /\ NoParser
  /\ NoTriangulation

RingsVisit ==
  /\ Len(doc) < MaxRingNodes
  /\ \E name \in RingsNames, depth \in NextDepths(doc) :
       /\ doc' = Append(doc, Node(name, depth, <<>>))
       /\ RingsWalker_for_each(Len(doc) + 1, name)
  /\ UNCHANGED <<polygonsVars, pointsVars, objectsVars, parserVars,
               triangulationVars>>

NextRings == RingsVisit

SpecRings == InitRings /\ [][NextRings]_vars

(***************************************************************************)
(* ObjectsWalker                                                           *)
(***************************************************************************)
\* The name test with the BuildingPart comparison left out.
IsCityObjectNameWithoutPart(nodeType) ==
  \/ StrEq(nodeType, "AuxiliaryTrafficArea")
  \/ StrEq(nodeType, "Bridge")
  \/ StrEq(nodeType, "Building")
  \/ StrEq(nodeType, "BuildingInstallation")
  \/ StrEq(nodeType, "CityFurniture")
  \/ StrEq(nodeType, "GenericCityObject")
  \/ StrEq(nodeType, "LandUse")
  \/ StrEq(nodeType, "PlantCover")
  \/ StrEq(nodeType, "Railway")
  \/ StrEq(nodeType, "ReliefFeature")
  \/ StrEq(nodeType, "Road")
  \/ StrEq(nodeType, "SolitaryVegetationObject")
  \/ StrEq(nodeType, "TrafficArea")
  \/ StrEq(nodeType, "Tunnel")
  \/ StrEq(nodeType, "WaterBody")

IsCityObjectName(nodeType) ==
  \/ StrEq(nodeType, "AuxiliaryTrafficArea")
  \/ StrEq(nodeType, "Bridge")
  \/ StrEq(nodeType, "Building")
  \/ StrEq(nodeType, "BuildingPart")
  \/ StrEq(nodeType, "BuildingInstallation")
  \/ StrEq(nodeType, "CityFurniture")
  \/ StrEq(nodeType, "GenericCityObject")
  \/ StrEq(nodeType, "LandUse")
  \/ StrEq(nodeType, "PlantCover")
  \/ StrEq(nodeType, "Railway")
  \/ StrEq(nodeType, "ReliefFeature")
  \/ StrEq(nodeType, "Road")
  \/ StrEq(nodeType, "SolitaryVegetationObject")
  \/ StrEq(nodeType, "TrafficArea")
  \/ StrEq(nodeType, "Tunnel")
  \/ StrEq(nodeType, "WaterBody")

ObjectsWalker_for_each(node, name) ==
  LET nodeType == StripNamespace(name)
  IN  IF IsCityObjectName(nodeType)
        THEN objects' = Append(objects, node)
        ELSE UNCHANGED objects

CityObjectTypes ==
  { "AuxiliaryTrafficArea", "Bridge", "Building", "BuildingPart",
    "BuildingInstallation", "CityFurniture", "GenericCityObject", "LandUse",
    "PlantCover", "Railway", "ReliefFeature", "Road",
    "SolitaryVegetationObject", "TrafficArea", "Tunnel", "WaterBody" }

\* The element names the ObjectsWalker is run on: every whitelisted type with
\* a prefix, and names that differ from a whitelisted one in the prefix, in a
\* second colon, in a letter, or altogether.
ObjectsNames ==
  { <<"ns", t>> : t \in CityObjectTypes }
  \cup { <<"Building">>, <<"a", "b", "Road">>, <<"Building", "x">>,
         <<"bldg", "Buildings">>, <<"gml", "Polygon">> }

InitObjects ==
  /\ doc = <<>>
  /\ objects = <<>>
  /\ NoPolygonsWalker /\ NoPointsWalker /\ NoRingsWalker /\ NoParser
  /\ NoTriangulation

ObjectsVisit ==
  /\ Len(doc) < MaxObjectNodes
  /\ \E name \in ObjectsNames, depth \in NextDepths(doc) :
       /\ doc' = Append(doc, Node(name, depth, <<>>))
       /\ ObjectsWalker_for_each(Len(doc) + 1, name)
  /\ UNCHANGED <<polygonsVars, pointsVars, ringsVars, parserVars,
               triangulationVars>>

NextObjects == ObjectsVisit

SpecObjects == InitObjects /\ [][NextObjects]_vars

(***************************************************************************)
(* Parser: the dataset and the regeneration driver.  Parser.hpp declares   *)
(* these members; their bodies are modelled from the specification         *)
(* (sections 3, 4.2 and 4.5).  A point is its three coordinates, a buffer  *)
(* a flat sequence of coordinates.                                         *)
(***************************************************************************)
RECURSIVE Flatten(_)
Flatten(seqs) == IF seqs = <<>> THEN <<>> ELSE Head(seqs) \o Flatten(Tail(seqs))

ParsedRing(pts) == [points |-> pts]
ParsedPolygon(ext, int) == [exteriorRing |-> ParsedRing(ext), interiorRings |-> int]
ParsedObject(polygons) ==
  [polygonsByType |-> polygons, trianglesByType |-> <<>>, edges |-> <<>>]

\* std::map iterates its keys in increasing order.
KeyOrder == <<"", "RoofSurface">>
KeysInOrder(map) == SelectSeq(KeyOrder, LAMBDA k : k \in DOMAIN map)

\* The kept faces of the constrained triangulation of a polygon, as triples
\* of original points: none for an exterior ring of fewer than 3 points;
\* for a convex ring without holes the n-2 triangles around its first point;
\* for a ring with one hole of as many points nested in it, the 2n triangles
\* of the band between the two.
Triangulate(polygon) ==
  LET e == polygon.exteriorRing.points
      n == Len(e)
  IN  IF n < 3 THEN <<>>
      ELSE IF polygon.interiorRings = <<>>
        THEN [k \in 1 .. n - 2 |-> <<e[1], e[k + 1], e[k + 2]>>]
        ELSE LET h == polygon.interiorRings[1].points
             IN  Flatten([k \in 1 .. n |->
                   << <<e[k], e[(k % n) + 1], h[k]>>,
                      <<e[(k % n) + 1], h[(k % n) + 1], h[k]>> >>])

\* addTrianglesFromTheConstrainedTriangulationOfPolygon: 9 floats per kept face.
AddTriangles(polygon, triangles) ==
  triangles \o Flatten([k \in 1 .. Len(Triangulate(polygon)) |->
                          Flatten(Triangulate(polygon)[k])])

RECURSIVE TrianglesOf(_, _)
TrianglesOf(polygons, triangles) ==
  IF polygons = <<>> THEN triangles
  ELSE TrianglesOf(Tail(polygons), AddTriangles(Head(polygons), triangles))

\* regenerateTrianglesFor that rebuilds on top of the old buffers.
RegenerateTrianglesAppending(object) ==
  [object EXCEPT !.trianglesByType =
     [t \in DOMAIN object.polygonsByType |->
        TrianglesOf(object.polygonsByType[t],
                    IF t \in DOMAIN object.trianglesByType
                      THEN object.trianglesByType[t] ELSE <<>>)]]

\* regenerateTrianglesFor: every surface type's buffer is cleared and rebuilt.
RegenerateTrianglesFor(object) ==
  [object EXCEPT !.trianglesByType =
     [t \in DOMAIN object.polygonsByType |->
        TrianglesOf(object.polygonsByType[t], <<>>)]]

\* The consecutive pairs of points without the closing pair.
EdgesOfRingOpen(ring) ==
  LET n == Len(ring.points)
  IN  Flatten([k \in 1 .. n - 1 |-> ring.points[k] \o ring.points[k + 1]])

\* Each consecutive pair of points and the closing pair: 6 floats a segment.
EdgesOfRing(ring) ==
  LET n == Len(ring.points)
  IN  Flatten([k \in 1 .. n |-> ring.points[k] \o ring.points[(k % n) + 1]])

EdgesOfPolygon(polygon) ==
  EdgesOfRing(polygon.exteriorRing)
    \o Flatten([k \in 1 .. Len(polygon.interiorRings) |->
                  EdgesOfRing(polygon.interiorRings[k])])

\* A polygon whose exterior ring has fewer than 3 points is degenerate: it
\* is skipped, and produces neither triangles nor edges (sections 4.2, 7).
IsDegenerate(polygon) == Len(polygon.exteriorRing.points) < 3

\* regenerateEdgesFor that extracts the edges of degenerate polygons too.
RegenerateEdgesForEveryPolygon(object) ==
  [object EXCEPT !.edges =
     Flatten([i \in 1 .. Len(KeysInOrder(object.polygonsByType)) |->
       LET polygons == object.polygonsByType[KeysInOrder(object.polygonsByType)[i]]
       IN  Flatten([k \in 1 .. Len(polygons) |-> EdgesOfPolygon(polygons[k])])])]

\* regenerateEdgesFor: the object's edge buffer is cleared and rebuilt from
\* the rings of its polygons, degenerate polygons skipped.
RegenerateEdgesFor(object) ==
  [object EXCEPT !.edges =
     Flatten([i \in 1 .. Len(KeysInOrder(object.polygonsByType)) |->
       LET polygons == object.polygonsByType[KeysInOrder(object.polygonsByType)[i]]
       IN  Flatten([k \in 1 .. Len(polygons) |->
             IF IsDegenerate(polygons[k]) THEN <<>>
             ELSE EdgesOfPolygon(polygons[k])])])]

\* The polygons of the datasets: an emptied ring, a ring of two points, a
\* square, and a triangle with a triangular hole.
ModelPolygons ==
  { ParsedPolygon(<<>>, <<>>),
    ParsedPolygon(<< <<0, 0, 0>>, <<4, 0, 0>> >>, <<>>),
    ParsedPolygon(<< <<0, 0, 0>>, <<4, 0, 0>>, <<4, 4, 0>>, <<0, 4, 0>> >>, <<>>),
    ParsedPolygon(<< <<0, 0, 1>>, <<8, 0, 1>>, <<0, 8, 1>> >>,
                  << ParsedRing(<< <<1, 1, 1>>, <<3, 1, 1>>, <<1, 3, 1>> >>) >>) }

PolygonLists == UNION { [1 .. k -> ModelPolygons] : k \in 1 .. MaxPolygons }

PolygonMaps ==
  UNION { [K -> PolygonLists] : K \in SUBSET {"", "RoofSurface"} }

Datasets ==
  UNION { [1 .. k -> { ParsedObject(m) : m \in PolygonMaps }] : k \in 0 .. MaxObjects }

\* Parser(): an empty dataset.
InitParser ==
  /\ parserObjects = <<>>
  /\ regenerations = 0
  /\ doc = <<>>
  /\ NoPolygonsWalker /\ NoPointsWalker /\ NoRingsWalker /\ NoObjectsWalker
  /\ NoTriangulation

\* parseCityGML / parseCityJSON: the dataset is cleared and rebuilt from the file.
Parse ==
  /\ \E d \in Datasets : parserObjects' = d
  /\ regenerations' = 0
  /\ UNCHANGED <<doc, polygonsVars, pointsVars, ringsVars, objectsVars,
               triangulationVars>>

\* clear()
Clear ==
  /\ parserObjects' = <<>>
  /\ regenerations' = 0
  /\ UNCHANGED <<doc, polygonsVars, pointsVars, ringsVars, objectsVars,
               triangulationVars>>

\* regenerateGeometries()
RegenerateGeometries ==
  /\ regenerations < MaxRegenerations
  /\ parserObjects' =
       [i \in 1 .. Len(parserObjects) |->
          RegenerateEdgesFor(RegenerateTrianglesFor(parserObjects[i]))]
  /\ regenerations' = regenerations + 1
  /\ UNCHANGED <<doc, polygonsVars, pointsVars, ringsVars, objectsVars,
               triangulationVars>>

NextParser == Parse \/ Clear \/ RegenerateGeometries

SpecParser == InitParser /\ [][NextParser]_vars

(***************************************************************************)
(* The constrained triangulation of one polygon and the classification of  *)
(* its faces (addTrianglesFromTheConstrainedTriangulationOfPolygon,        *)
(* modelled from section 4.2 of the specification).  A triangulation is    *)
(* its dual graph: face 0 is the infinite face, an edge joins the two      *)
(* faces on its sides, and a constrained edge carries the ring it belongs  *)
(* to (1 = the exterior ring, 2.. = the interior rings).  region tells,    *)
(* for every finite face, where it lies: 0 outside the exterior ring, 1 in *)
(* the solid surface, r >= 2 inside interior ring r.  The triangulations   *)
(* below are those of four polygons, computed with exact arithmetic;      *)
(* the topology does not depend on the order of insertion of the rings.    *)
(***************************************************************************)
\* A triangle with a triangular hole.
BandMesh ==
  [ faces |-> 0 .. 7,
    rings |-> 2,
    constrained |-> {<<0, 1, 1>>, <<0, 2, 1>>, <<0, 5, 1>>, <<3, 7, 2>>, <<4, 7, 2>>, <<6, 7, 2>>},
    free |-> {<<1, 3>>, <<1, 6>>, <<2, 4>>, <<2, 5>>, <<3, 4>>, <<5, 6>>},
    region |-> <<1, 1, 1, 1, 1, 1, 2>> ]

\* A dart: its notch is a finite face outside the exterior ring.
DartMesh ==
  [ faces |-> 0 .. 3,
    rings |-> 1,
    constrained |-> {<<0, 2, 1>>, <<0, 3, 1>>, <<1, 2, 1>>, <<1, 3, 1>>},
    free |-> {<<0, 1>>, <<2, 3>>},
    region |-> <<0, 1, 1>> ]

\* A plate with a notched side, a square hole and a triangular hole.
PlateMesh ==
  [ faces |-> 0 .. 22,
    rings |-> 3,
    constrained |-> {<<0, 4, 1>>, <<0, 12, 1>>, <<0, 13, 1>>, <<1, 2, 1>>, <<1, 5, 1>>, <<6, 18, 2>>, <<8, 9, 1>>, <<8, 10, 1>>, <<11, 22, 3>>, <<15, 22, 3>>, <<16, 19, 2>>, <<17, 19, 2>>, <<18, 20, 2>>, <<21, 22, 3>>},
    free |-> {<<0, 3>>, <<1, 3>>, <<2, 4>>, <<2, 6>>, <<3, 8>>, <<4, 16>>, <<5, 7>>, <<5, 9>>, <<6, 7>>, <<7, 20>>, <<9, 11>>, <<10, 11>>, <<10, 12>>, <<12, 15>>, <<13, 14>>, <<13, 17>>, <<14, 15>>, <<14, 21>>, <<16, 17>>, <<18, 19>>, <<20, 21>>},
    region |-> <<0, 1, 0, 1, 1, 1, 1, 0, 1, 1, 1, 1, 1, 1, 1, 1, 1, 2, 2, 1, 1, 3>> ]
\* A notched plate with a square, a hexagonal and a triangular hole.
SieveMesh ==
  [ faces |-> 0 .. 30,
    rings |-> 4,
    constrained |-> {<<0, 3, 1>>, <<0, 10, 1>>, <<0, 12, 1>>, <<1, 2, 1>>, <<1, 6, 1>>, <<4, 17, 2>>, <<5, 18, 2>>, <<8, 23, 3>>, <<9, 25, 3>>, <<11, 25, 3>>, <<14, 30, 4>>, <<16, 30, 4>>, <<17, 19, 2>>, <<18, 21, 2>>, <<20, 24, 3>>, <<24, 28, 3>>, <<26, 27, 3>>, <<29, 30, 4>>},
    free |-> {<<0, 1>>, <<2, 4>>, <<2, 7>>, <<3, 5>>, <<3, 15>>, <<4, 5>>, <<6, 9>>, <<6, 11>>, <<7, 8>>, <<7, 20>>, <<8, 9>>, <<10, 11>>, <<10, 13>>, <<12, 14>>, <<12, 16>>, <<13, 14>>, <<13, 27>>, <<15, 16>>, <<15, 21>>, <<17, 18>>, <<19, 20>>, <<19, 22>>, <<21, 22>>, <<22, 28>>, <<23, 24>>, <<23, 26>>, <<25, 26>>, <<27, 29>>, <<28, 29>>},
    region |-> <<0, 1, 1, 1, 1, 1, 1, 1, 1, 1, 1, 1, 1, 1, 1, 1, 2, 2, 1, 1, 1, 1, 3, 3, 3, 3, 1, 1, 1, 4>> ]

Triangulations == {BandMesh, DartMesh, PlateMesh, SieveMesh}

RingOrders(S) ==
  { f \in [1 .. Cardinality(S) -> S] : \A i, j \in DOMAIN f : f[i] = f[j] => i = j }

\* The faces across any edge of face f, constrained or not.
NeighboursAcross(t, f, ring) ==
  { g \in t.faces : \/ <<f, g>> \in t.free \/ <<g, f>> \in t.free
                    \/ \E r \in 1 .. t.rings :
                         <<f, g, r>> \in t.constrained \/ <<g, f, r>> \in t.constrained }

\* The faces across the edges of face f that a flood of the given ring may
\* cross: every edge but the constrained edges of that ring.
Neighbours(t, f, ring) ==
  { g \in t.faces : \/ <<f, g>> \in t.free \/ <<g, f>> \in t.free
                    \/ \E r \in (1 .. t.rings) \ {ring} :
                         <<f, g, r>> \in t.constrained \/ <<g, f, r>> \in t.constrained }

\* The faces enclosed by an interior ring and adjacent to one of its edges.
SeedsOf(t, ring) ==
  { f \in t.faces \ {0} :
      /\ t.region[f] = ring
      /\ \E g \in t.faces : <<f, g, ring>> \in t.constrained
                             \/ <<g, f, ring>> \in t.constrained }

\* The mark a flood leaves: the flood from the infinite face clears
\* inside-exterior, the flood of an interior ring sets inside-some-hole.
Marked(faceInfo, ring) ==
  IF ring = 1 THEN <<FALSE, faceInfo[2]>> ELSE <<faceInfo[1], TRUE>>

\* Every ring's edges are inserted, in some order of the rings; every face
\* starts as inside-exterior and in no hole; the first flood starts from the
\* infinite face.
InitTriangulation ==
  /\ triangulation \in Triangulations
  /\ ringsToFlood \in RingOrders(2 .. triangulation.rings)
  /\ info = [f \in triangulation.faces |-> <<TRUE, FALSE>>]
  /\ floodOf = 1
  /\ frontier = {0}
  /\ keptFaces = {}
  /\ stage = "flood"
  /\ doc = <<>>
  /\ NoPolygonsWalker /\ NoPointsWalker /\ NoRingsWalker /\ NoObjectsWalker
  /\ NoParser

\* One step of a flood: a reached face is marked, and the flood goes on to
\* its unmarked neighbours.
FloodStep ==
  /\ stage = "flood"
  /\ \E f \in frontier :
       /\ info' = [info EXCEPT ![f] = Marked(info[f], floodOf)]
       /\ frontier' =
            (frontier \ {f})
              \cup { g \in Neighbours(triangulation, f, floodOf) :
                       g # f /\ info[g] # Marked(info[g], floodOf) }
  /\ UNCHANGED <<triangulation, ringsToFlood, floodOf, keptFaces, stage>>
  /\ UNCHANGED <<doc, polygonsVars, pointsVars, ringsVars, objectsVars, parserVars>>

\* A flood is over: the next interior ring is flooded from one of its seeds.
NextFlood ==
  /\ stage = "flood" /\ frontier = {} /\ ringsToFlood # <<>>
  /\ floodOf' = Head(ringsToFlood)
  /\ ringsToFlood' = Tail(ringsToFlood)
  /\ \E f \in SeedsOf(triangulation, Head(ringsToFlood)) : frontier' = {f}
  /\ UNCHANGED <<triangulation, info, keptFaces, stage>>
  /\ UNCHANGED <<doc, polygonsVars, pointsVars, ringsVars, objectsVars, parserVars>>

\* All floods are over: a finite face is kept iff it is inside the exterior
\* ring and in no hole.
EmitTriangles ==
  /\ stage = "flood" /\ frontier = {} /\ ringsToFlood = <<>>
  /\ keptFaces' = { f \in triangulation.faces \ {0} : info[f] = <<TRUE, FALSE>> }
  /\ stage' = "done"
  /\ UNCHANGED <<triangulation, info, ringsToFlood, floodOf, frontier>>
  /\ UNCHANGED <<doc, polygonsVars, pointsVars, ringsVars, objectsVars, parserVars>>

NextTriangulation == FloodStep \/ NextFlood \/ EmitTriangles

SpecTriangulation == InitTriangulation /\ [][NextTriangulation]_vars

(***************************************************************************)
(* The four walkers on one document: every node is handed to the for_each  *)
(* of each of them, as when the same subtree is traversed once with each   *)
(* walker.  The names are those the walkers look for, written with the     *)
(* prefix gml, with another prefix, and without prefix; a position element *)
(* holds one point.                                                        *)
(***************************************************************************)
WalkedLocalNames ==
  {"pos", "posList", "exterior", "interior", "Polygon", "RoofSurface", "Building"}

WalkedNames ==
  UNION { { <<l>>, <<"gml", l>>, <<"ns", l>> } : l \in WalkedLocalNames }

WalkedText(name) ==
  IF Last(name) \in {"pos", "posList"} THEN <<"1", " ", "2", " ", "1">> ELSE <<>>

InitWalkers ==
  /\ doc = <<>>
  /\ polygonsByType = <<>>
  /\ inDefinedType = ""
  /\ depthToStop \in 0 .. MaxDepth
  /\ points = <<>> /\ cout = <<>> /\ thrown = ""
  /\ exteriorRing = 0 /\ interiorRings = <<>>
  /\ objects = <<>>
  /\ NoParser
  /\ NoTriangulation

WalkersVisit ==
  /\ Len(doc) < MaxWalked
  /\ \E name \in WalkedNames, depth \in NextDepths(doc) :
       /\ doc' = Append(doc, Node(name, depth, WalkedText(name)))
       /\ PolygonsWalker_for_each(Len(doc) + 1, name, depth)
       /\ PointsWalker_for_each(name, WalkedText(name))
       /\ RingsWalker_for_each(Len(doc) + 1, name)
       /\ ObjectsWalker_for_each(Len(doc) + 1, name)
  /\ UNCHANGED <<parserVars, triangulationVars>>

NextWalkers == WalkersVisit

SpecWalkers == InitWalkers /\ [][NextWalkers]_vars

(***************************************************************************)
(* The document as a tree, for stating the properties.                     *)
(***************************************************************************)
Nodes == 1 .. Len(doc)

\* The local name of an element: what follows its namespace prefix.
LocalNameOf(i) == Last(doc[i].name)

SurfaceTypeNames == {"Door", "GroundSurface", "RoofSurface", "Window"}

IsSurfaceElement(i) == LocalNameOf(i) \in SurfaceTypeNames
IsPolygonElement(i) == LocalNameOf(i) \in {"Polygon", "Triangle"}

\* i lies in the subtree below a.
InSubtree(a, i) ==
  a < i /\ \A k \in (a + 1) .. i : doc[k].depth > doc[a].depth

\* a and b are children of the same parent, a first.
Siblings(a, b) ==
  /\ a < b
  /\ doc[a].depth = doc[b].depth
  /\ \A k \in a .. b : doc[k].depth >= doc[a].depth

\* The keys of polygonsByType under which node i is filed.
KeysOf(i) ==
  { k \in DOMAIN polygonsByType :
      \E j \in 1 .. Len(polygonsByType[k]) : polygonsByType[k][j] = i }

(***************************************************************************)
(* C1 (as stated, its last clause): for sibling surface-type elements A    *)
(* then B of different names, no Polygon/Triangle in B's subtree is filed  *)
(* under A's name.                                                         *)
(***************************************************************************)
C1_NoneUnderFirstSibling ==
  \A a \in Nodes : \A b \in Nodes :
    ( /\ IsSurfaceElement(a) /\ IsSurfaceElement(b) /\ Siblings(a, b)
      /\ LocalNameOf(a) # LocalNameOf(b) ) =>
      \A p \in Nodes :
        (IsPolygonElement(p) /\ InSubtree(b, p)) => LocalNameOf(a) \notin KeysOf(p)

\* One for_each call: a type that is active when an element at or above the
\* entry depth is visited is gone after the call, unless the element is itself
\* a surface-type element, whose name then is the type; a Polygon visited at
\* such a depth is filed under "".
C1_ExitBeforeName ==
  LET n  == Last(doc')
      ln == Last(n.name)
  IN  (inDefinedType # "" /\ n.depth <= depthToStop) =>
        /\ inDefinedType' = (IF ln \in SurfaceTypeNames THEN ln ELSE "")
        /\ ln \in {"Polygon", "Triangle"} =>
             /\ "" \in DOMAIN polygonsByType'
             /\ Last(polygonsByType'[""]) = Len(doc')

\* The Polygons of B's subtree met before any surface-type element nested in
\* B are B's; one filed under A's name has a nested element of that name
\* above it.
C1_DirectlyUnderSibling ==
  \A a \in Nodes : \A b \in Nodes :
    (IsSurfaceElement(a) /\ IsSurfaceElement(b) /\ Siblings(a, b)) =>
      \A p \in Nodes :
        (IsPolygonElement(p) /\ InSubtree(b, p)) =>
          /\ (\A c \in (b + 1) .. (p - 1) : ~IsSurfaceElement(c)) =>
               KeysOf(p) = {LocalNameOf(b)}
          /\ (LocalNameOf(a) \in KeysOf(p) /\ LocalNameOf(a) # LocalNameOf(b)) =>
               \E c \in (b + 1) .. (p - 1) :
                 /\ IsSurfaceElement(c)
                 /\ LocalNameOf(c) = LocalNameOf(a)
                 /\ InSubtree(c, p)

(***************************************************************************)
(* C1 (amended): the active type reverts on the first visited element at   *)
(* or above the entry depth, before that element's name is examined, and   *)
(* for sibling surface-type elements A then B every Polygon/Triangle of    *)
(* B's subtree that no surface-type element nested in B precedes is filed  *)
(* under B's local name and under no other key; one of B's subtree is      *)
(* filed under A's (different) name only below a nested element so named.  *)
(***************************************************************************)
C1_SiblingSurfaceTypes ==
  [][C1_ExitBeforeName]_vars /\ []C1_DirectlyUnderSibling

\* Siblings A then B of different names, each with a Polygon in its subtree.
C1_Witness ==
  \E a \in Nodes : \E b \in Nodes :
    /\ IsSurfaceElement(a) /\ IsSurfaceElement(b) /\ Siblings(a, b)
    /\ LocalNameOf(a) # LocalNameOf(b)
    /\ \E p \in Nodes : IsPolygonElement(p) /\ InSubtree(a, p) /\ p < b
    /\ \E q \in Nodes : IsPolygonElement(q) /\ InSubtree(b, q)
                          /\ KeysOf(q) = {LocalNameOf(b)}

(***************************************************************************)
(* C2: a Polygon/Triangle with no surface-type ancestor is filed under ""  *)
(* (and nowhere else), and a defined type is active only while the node    *)
(* just visited is the element that set it or lies in that element's       *)
(* subtree.                                                                *)
(***************************************************************************)
C2_UndefinedOutsideSurfaces ==
  /\ \A p \in Nodes :
       ( /\ IsPolygonElement(p)
         /\ \A a \in Nodes : ~(IsSurfaceElement(a) /\ InSubtree(a, p)) ) =>
           KeysOf(p) = {""}
  /\ inDefinedType # "" =>
       \E s \in Nodes :
         /\ IsSurfaceElement(s)
         /\ \A t \in (s + 1) .. Len(doc) : ~IsSurfaceElement(t)
         /\ LocalNameOf(s) = inDefinedType
         /\ (s = Len(doc) \/ InSubtree(s, Len(doc)))

\* A Polygon filed inside a surface element, then one met after that subtree
\* was left, with no surface-type ancestor.
C2_Witness ==
  \E s \in Nodes : \E p \in Nodes : \E q \in Nodes :
    /\ IsSurfaceElement(s) /\ IsPolygonElement(p) /\ InSubtree(s, p)
    /\ p < q /\ IsPolygonElement(q)
    /\ \A a \in Nodes : ~(IsSurfaceElement(a) /\ InSubtree(a, q))
    /\ KeysOf(q) = {""}

(***************************************************************************)
(* A ring's position elements and their tokens, for stating the            *)
(* properties of PointsWalker.                                             *)
(***************************************************************************)
IsPositionElement(n) == n.name \in { <<"gml", "pos">>, <<"gml", "posList">> }

\* The white-space-separated tokens of a text, in order: the tokens of the
\* text without its last symbol, with that symbol added to the last token or
\* opening a new one.
RECURSIVE TokensOf(_)
TokensOf(t) ==
  IF t = <<>> THEN <<>>
  ELSE LET before == TokensOf(SubSeq(t, 1, Len(t) - 1))
       IN  IF Last(t) = " " THEN before
           ELSE IF Len(t) > 1 /\ t[Len(t) - 1] # " "
             THEN [before EXCEPT ![Len(before)] = Append(@, Last(t))]
             ELSE Append(before, <<Last(t)>>)

\* The tokens of the position elements among the first n nodes, concatenated.
RECURSIVE TokensUpTo(_)
TokensUpTo(n) ==
  IF n = 0 THEN <<>>
  ELSE TokensUpTo(n - 1) \o (IF IsPositionElement(doc[n]) THEN TokensOf(doc[n].text) ELSE <<>>)

RingTokens == TokensUpTo(Len(doc))

\* A token that is a numeric literal (here: an unsigned integer) as a whole.
IsNumericLiteral(tok) == \A k \in 1 .. Len(tok) : IsDigit(tok[k])

\* A token that parses as a number: it begins with a numeric literal.
ParsesAsNumber(tok) == IsDigit(tok[1])

HasUnparsableToken(t) == \E k \in 1 .. Len(TokensOf(t)) : ~ParsesAsNumber(TokensOf(t)[k])

WellFormed(t) ==
  /\ \A k \in 1 .. Len(TokensOf(t)) : IsNumericLiteral(TokensOf(t)[k])
  /\ Len(TokensOf(t)) % 3 = 0

(***************************************************************************)
(* C3: when every position element of the ring holds only numeric tokens   *)
(* and a multiple of 3 of them, N triples in all, points has N points and  *)
(* the coordinates of the k-th are the values of tokens 3k, 3k+1, 3k+2 of  *)
(* the concatenated token sequence.                                        *)
(***************************************************************************)
C3_RoundTrip ==
  (\A i \in Nodes : IsPositionElement(doc[i]) => WellFormed(doc[i].text)) =>
    /\ thrown = ""
    /\ 3 * Len(points) = Len(RingTokens)
    /\ \A k \in 1 .. Len(points) : \A c \in 1 .. 3 :
         points[k][c] = Decimal(RingTokens[3 * (k - 1) + c])

\* Two well-formed position elements, two different points, coordinates that differ.
C3_Witness ==
  /\ Len(doc) = 2
  /\ \A i \in Nodes : IsPositionElement(doc[i]) /\ WellFormed(doc[i].text)
  /\ Len(points) = 2
  /\ points[1] # points[2]
  /\ points[2][1] # points[2][2]
  /\ points[2][2] # points[2][3]

(***************************************************************************)
(* C4: a ring whose position elements hold, in total, a number of tokens   *)
(* that is not a multiple of 3 ends with zero points.                      *)
(***************************************************************************)
C4_TotalCountNotMultipleOf3 ==
  (thrown = "" /\ Len(RingTokens) % 3 # 0) => points = <<>>

(***************************************************************************)
(* C5: a ring with a token that does not parse as a number in any of its   *)
(* position elements ends with zero points.                                *)
(***************************************************************************)
C5_UnparsableTokenEmptiesRing ==
  ( /\ thrown = ""
    /\ \E i \in Nodes : IsPositionElement(doc[i]) /\ HasUnparsableToken(doc[i].text) ) =>
    points = <<>>

(***************************************************************************)
(* C6: whatever the content of a position element, for_each completes      *)
(* normally (and returns true): no exception leaves it.                    *)
(***************************************************************************)
C6_ForEachCompletes == thrown = ""

\* One for_each call that returns: an element with a token that does not
\* parse is discarded with the invalid-point line alone, another one whose
\* token count is not a multiple of 3 with the wrong-count line alone, and
\* any other element writes nothing.
C7_OneCall ==
  LET n == Last(doc')
  IN  (doc' # doc /\ thrown' = "") =>
        IF IsPositionElement(n) /\ HasUnparsableToken(n.text)
          THEN cout' = Append(cout, InvalidPoint) /\ points' = <<>>
        ELSE IF IsPositionElement(n) /\ Len(TokensOf(n.text)) % 3 # 0
          THEN cout' = Append(cout, WrongNumber) /\ points' = <<>>
        ELSE cout' = cout

(***************************************************************************)
(* C7: each position element that is discarded writes exactly one          *)
(* diagnostic (invalid-point for an unparsable token, never the            *)
(* wrong-count line as well), and a well-formed one writes none.           *)
(***************************************************************************)
C7_OneDiagnosticPerDiscard == [][C7_OneCall]_vars

\* An element discarded for an unparsable token met in the middle of a
\* triple, after an element discarded for its count.
C7_Witness ==
  /\ Len(doc) = 2
  /\ cout = <<WrongNumber, InvalidPoint>>
  /\ IsPositionElement(doc[2])
  /\ Len(TokensOf(doc[2].text)) = 2
  /\ ~ParsesAsNumber(TokensOf(doc[2].text)[2])

\* The nodes of a list of nodes are those of S, each once, in document order.
ListsExactly(list, S) ==
  /\ \A k \in 1 .. Len(list) : list[k] \in S
  /\ \A i \in S : \E k \in 1 .. Len(list) : list[k] = i
  /\ \A j \in 1 .. Len(list) : \A k \in 1 .. Len(list) : j < k => list[j] < list[k]

\* An element name with the prefix up to its first colon removed.
AfterFirstColon(name) == IF Len(name) >= 2 THEN SubSeq(name, 2, Len(name)) ELSE name

IsCityObjectElement(i) ==
  \E t \in CityObjectTypes : AfterFirstColon(doc[i].name) = <<t>>

(***************************************************************************)
(* C8: objects holds exactly the visited elements whose name, with the     *)
(* prefix up to the first colon removed, is one of the 16 city-object type *)
(* names, each once and in document order, nested ones included.           *)
(***************************************************************************)
C8_ObjectsAreTheWhitelisted ==
  /\ Cardinality(CityObjectTypes) = 16
  /\ ListsExactly(objects, { i \in Nodes : IsCityObjectElement(i) })

\* A BuildingPart inside a Building, both collected, and an element of
\* another name that is not.
C8_Witness ==
  \E a \in Nodes : \E b \in Nodes : \E c \in Nodes :
    /\ LocalNameOf(a) = "Building" /\ LocalNameOf(b) = "BuildingPart"
    /\ InSubtree(a, b)
    /\ objects = <<a, b>>
    /\ c \notin {a, b}

(***************************************************************************)
(* C9: exteriorRing is the Polygon's single gml:exterior element, or the   *)
(* null node when there is none, and interiorRings holds the Polygon's     *)
(* gml:interior elements, each once, in document order.                    *)
(***************************************************************************)
C9_RingsOfPolygon ==
  LET ext == { i \in Nodes : doc[i].name = <<"gml", "exterior">> }
      int == { i \in Nodes : doc[i].name = <<"gml", "interior">> }
  IN  /\ ext = {} => exteriorRing = 0
      /\ Cardinality(ext) = 1 => exteriorRing \in ext
      /\ ListsExactly(interiorRings, int)

\* An exterior between two interiors.
C9_Witness ==
  /\ Len(interiorRings) = 2
  /\ exteriorRing # 0
  /\ interiorRings[1] < exteriorRing /\ exteriorRing < interiorRings[2]
  /\ Cardinality({ i \in Nodes : doc[i].name = <<"gml", "exterior">> }) = 1

(***************************************************************************)
(* C10: a regenerateGeometries call that follows another one, with no      *)
(* parse in between, leaves every object's trianglesByType and edges as    *)
(* the first call left them.                                               *)
(***************************************************************************)
C10_RegenerationIdempotent ==
  [][ (regenerations >= 1 /\ regenerations' = regenerations + 1) =>
        /\ Len(parserObjects') = Len(parserObjects)
        /\ \A i \in 1 .. Len(parserObjects) :
             /\ parserObjects'[i].trianglesByType = parserObjects[i].trianglesByType
             /\ parserObjects'[i].edges = parserObjects[i].edges ]_vars

\* Two calls in a row on a dataset with two objects, one of them with
\* triangles under two surface types and edges.
C10_Witness ==
  /\ regenerations = 2
  /\ Len(parserObjects) = 2
  /\ \E i \in 1 .. 2 :
       /\ DOMAIN parserObjects[i].trianglesByType = {"", "RoofSurface"}
       /\ Len(parserObjects[i].trianglesByType[""]) > 0
       /\ Len(parserObjects[i].trianglesByType["RoofSurface"]) > 9
       /\ Len(parserObjects[i].edges) > 0


(***************************************************************************)
(* C11: the shape of the buffers.                                          *)
(***************************************************************************)
RECURSIVE SumOf(_)
SumOf(numbers) == IF numbers = <<>> THEN 0 ELSE Head(numbers) + SumOf(Tail(numbers))

PolygonsOfObject(object) ==
  Flatten([i \in 1 .. Len(KeysInOrder(object.polygonsByType)) |->
             object.polygonsByType[KeysInOrder(object.polygonsByType)[i]]])

PointsOfPolygon(polygon) ==
  Len(polygon.exteriorRing.points)
    + SumOf([k \in 1 .. Len(polygon.interiorRings) |->
               Len(polygon.interiorRings[k].points)])

RingPointsOf(object) ==
  SumOf([k \in 1 .. Len(PolygonsOfObject(object)) |->
           PointsOfPolygon(PolygonsOfObject(object)[k])])

UsableRingPointsOf(object) ==
  SumOf([k \in 1 .. Len(PolygonsOfObject(object)) |->
           IF Len(PolygonsOfObject(object)[k].exteriorRing.points) < 3 THEN 0
           ELSE PointsOfPolygon(PolygonsOfObject(object)[k])])

\* C11 as stated: after a regeneration the length of every object's edge
\* buffer is 6 times the number of points of all the rings of all its
\* polygons.
C11_EdgesOfEveryRing ==
  regenerations >= 1 =>
    \A i \in 1 .. Len(parserObjects) :
      Len(parserObjects[i].edges) = 6 * RingPointsOf(parserObjects[i])

\* C11: after any sequence of ingestion and regeneration calls the length of
\* every triangle buffer is a multiple of 9 and the length of every edge
\* buffer a multiple of 6; after a regeneration the length of an object's
\* edge buffer is 6 times the number of points of the exterior and interior
\* rings of those of its polygons whose exterior ring has at least 3 points.
C11_BufferShape ==
  \A i \in 1 .. Len(parserObjects) :
    /\ \A t \in DOMAIN parserObjects[i].trianglesByType :
         Len(parserObjects[i].trianglesByType[t]) % 9 = 0
    /\ Len(parserObjects[i].edges) % 6 = 0
    /\ regenerations >= 1 =>
         Len(parserObjects[i].edges) = 6 * UsableRingPointsOf(parserObjects[i])

\* A regenerated object with a holed polygon and a degenerate one.
C11_Witness ==
  /\ regenerations >= 1
  /\ \E i \in 1 .. Len(parserObjects) :
       /\ \E k \in 1 .. Len(PolygonsOfObject(parserObjects[i])) :
            PolygonsOfObject(parserObjects[i])[k].interiorRings # <<>>
       /\ \E k \in 1 .. Len(PolygonsOfObject(parserObjects[i])) :
            Len(PolygonsOfObject(parserObjects[i])[k].exteriorRing.points) = 2
       /\ Len(parserObjects[i].edges) = 36
       /\ \E t \in DOMAIN parserObjects[i].trianglesByType :
            Len(parserObjects[i].trianglesByType[t]) = 54

(***************************************************************************)
(* C12: the classification of the faces.                                   *)
(***************************************************************************)
FiniteFaces == triangulation.faces \ {0}

\* The faces of the solid surface: inside the exterior ring, in no hole.
SolidFaces(t) == { f \in t.faces \ {0} : t.region[f] = 1 }

\* C12: when the triangles are emitted, every finite face's inside-exterior
\* flag tells whether the face lies inside the exterior ring and its
\* inside-some-hole flag whether it lies inside an interior ring; a face is
\* kept iff the first flag is true and the second false; and the set of kept
\* faces is the solid surface of the triangulation, the same for every
\* order in which the rings were inserted and flooded.
C12_FaceClassification ==
  stage = "done" =>
    /\ \A f \in FiniteFaces :
         /\ info[f][1] = (triangulation.region[f] # 0)
         /\ info[f][2] = (triangulation.region[f] >= 2)
         /\ f \in keptFaces <=> (info[f][1] /\ ~info[f][2])
    /\ keptFaces = SolidFaces(triangulation)

\* A classified polygon with two holes or more, a finite face outside the
\* exterior ring, and kept faces.
C12_Witness ==
  /\ stage = "done"
  /\ triangulation.rings >= 3
  /\ keptFaces # {}
  /\ \E f \in FiniteFaces : info[f] = <<FALSE, FALSE>>
  /\ \E f \in FiniteFaces : info[f] = <<TRUE, TRUE>>

(***************************************************************************)
(* C13: degenerate polygons.                                               *)
(***************************************************************************)
HasFewPoints(polygon) == Len(polygon.exteriorRing.points) < 3

\* The object without its polygons of fewer than 3 exterior points.
WithoutFewPoints(object) ==
  [object EXCEPT !.polygonsByType =
     [t \in DOMAIN object.polygonsByType |->
        SelectSeq(object.polygonsByType[t], LAMBDA q : ~HasFewPoints(q))]]

\* C13: after a regeneration every buffer of every object is what it would
\* be without the object's polygons of fewer than 3 exterior points (such a
\* polygon contributes no triangle and no edge), and every other polygon of
\* every object has contributed: at least one triangle to the buffer of its
\* type, and one segment per point of its rings to the edge buffer.
C13_DegenerateContributesNothing ==
  regenerations >= 1 =>
    \A i \in 1 .. Len(parserObjects) :
      LET object == parserObjects[i]
          others == WithoutFewPoints(object)
      IN  /\ DOMAIN object.trianglesByType = DOMAIN object.polygonsByType
          /\ \A t \in DOMAIN object.polygonsByType :
               /\ object.trianglesByType[t] =
                    TrianglesOf(others.polygonsByType[t], <<>>)
               /\ Len(object.trianglesByType[t]) >=
                    9 * Len(others.polygonsByType[t])
          /\ object.edges =
               Flatten([k \in 1 .. Len(PolygonsOfObject(others)) |->
                          EdgesOfPolygon(PolygonsOfObject(others)[k])])
          /\ Len(object.edges) = 6 * RingPointsOf(others)

\* A regenerated dataset: an object whose only polygons have fewer than 3
\* exterior points, one of them with 2 points, and after it an object with
\* a square.
C13_Witness ==
  /\ regenerations >= 1
  /\ Len(parserObjects) = 2
  /\ \E k \in 1 .. Len(PolygonsOfObject(parserObjects[1])) :
       Len(PolygonsOfObject(parserObjects[1])[k].exteriorRing.points) = 2
  /\ \A k \in 1 .. Len(PolygonsOfObject(parserObjects[1])) :
       HasFewPoints(PolygonsOfObject(parserObjects[1])[k])
  /\ parserObjects[1].edges = <<>>
  /\ \A t \in DOMAIN parserObjects[1].trianglesByType :
       parserObjects[1].trianglesByType[t] = <<>>
  /\ Len(parserObjects[2].edges) = 24
  /\ \E t \in DOMAIN parserObjects[2].trianglesByType :
       Len(parserObjects[2].trianglesByType[t]) = 18

(***************************************************************************)
(* C14: nested surface-type elements.                                      *)
(***************************************************************************)
\* The surface-type elements that enclose node p.
SurfaceAncestors(p) == { a \in Nodes : IsSurfaceElement(a) /\ InSubtree(a, p) }

\* The nearest of them: in pre-order, the last one before p.
NearestSurfaceAncestor(p) ==
  CHOOSE a \in SurfaceAncestors(p) : \A b \in SurfaceAncestors(p) : b <= a

\* C14: every Polygon/Triangle with a surface-type ancestor is filed under
\* the local name of the nearest one and under no other key, "" included.
C14_NearestSurfaceAncestor ==
  \A p \in Nodes :
    (IsPolygonElement(p) /\ SurfaceAncestors(p) # {}) =>
      KeysOf(p) = {LocalNameOf(NearestSurfaceAncestor(p))}

(***************************************************************************)
(* C15: a failing position element discards the earlier points too.        *)
(***************************************************************************)
\* A position element that fails: one of its tokens does not parse as a
\* number, or the number of its tokens is not a multiple of 3.
Fails(n) ==
  /\ IsPositionElement(n)
  /\ LET toks == TokensOf(n.text)
     IN  \/ \E k \in 1 .. Len(toks) : ~ParsesAsNumber(toks[k])
         \/ Len(toks) % 3 # 0

\* C15: when for_each has returned from a failing position element, points
\* is empty, whatever the earlier elements of the walk had put into it.
C15_FailureDiscardsAll ==
  (doc # <<>> /\ thrown = "" /\ Fails(Last(doc))) => points = <<>>

\* A well-formed element that gave a point, then an element that fails for
\* its count, and no point left.
C15_Witness ==
  /\ Len(doc) = 2
  /\ thrown = ""
  /\ IsPositionElement(doc[1]) /\ WellFormed(doc[1].text)
  /\ Len(TokensOf(doc[1].text)) = 3
  /\ Fails(doc[2]) /\ ~HasUnparsableToken(doc[2].text)
  /\ cout = <<WrongNumber>>
  /\ points = <<>>

(***************************************************************************)
(* C16: tokens with a numeric prefix.                                      *)
(***************************************************************************)
HasPartlyNumericToken(t) ==
  \E k \in 1 .. Len(TokensOf(t)) : ~IsNumericLiteral(TokensOf(t)[k])

\* C16: when for_each has returned from a position element with a token
\* that is not a numeric literal as a whole, the points are discarded and
\* a diagnostic has been written.
C16_WholeTokenOrDiscard ==
  ( /\ doc # <<>> /\ thrown = ""
    /\ IsPositionElement(Last(doc))
    /\ HasPartlyNumericToken(Last(doc).text) ) =>
    /\ points = <<>>
    /\ cout # <<>>

(***************************************************************************)
(* C17: the shape of polygonsByType.                                       *)
(***************************************************************************)
VisitedPolygons == { p \in Nodes : IsPolygonElement(p) }

\* C17: at every point of the walk, every Polygon/Triangle visited so far
\* is in the list of exactly one key, the lists hold nothing else, every
\* list is in document order (so no node twice) and not empty, and the keys
\* are among "", Door, GroundSurface, RoofSurface, Window.
C17_PolygonsByTypeShape ==
  /\ \A p \in VisitedPolygons : Cardinality(KeysOf(p)) = 1
  /\ DOMAIN polygonsByType \subseteq {""} \cup SurfaceTypeNames
  /\ \A key \in DOMAIN polygonsByType :
       /\ polygonsByType[key] # <<>>
       /\ ListsExactly(polygonsByType[key],
                       { p \in VisitedPolygons : key \in KeysOf(p) })

\* Two keys, "" one of them, and a list of two nodes.
C17_Witness ==
  /\ "" \in DOMAIN polygonsByType
  /\ Cardinality(DOMAIN polygonsByType) = 2
  /\ \E key \in DOMAIN polygonsByType : Len(polygonsByType[key]) = 2

(***************************************************************************)
(* C18: points holds whole points only.                                    *)
(***************************************************************************)
\* The tokens of the position elements visited since the last one that
\* failed, among the first n nodes, concatenated.
RECURSIVE TokensSinceFailure(_)
TokensSinceFailure(n) ==
  IF n = 0 \/ Fails(doc[n]) THEN <<>>
  ELSE TokensSinceFailure(n - 1)
         \o (IF IsPositionElement(doc[n]) THEN TokensOf(doc[n].text) ELSE <<>>)

\* The number a token is read as: that of the digits it begins with.
ValueOf(tok) == Decimal(SubSeq(tok, 1, DigitRun(tok)))

\* C18: whenever for_each has returned, points has one point for every 3
\* tokens of the position elements visited since the last discard (each of
\* them holds a multiple of 3 of tokens), and the three coordinates of the
\* k-th point are the values of the tokens 3k-2, 3k-1 and 3k of them: no
\* point is left partly filled, and no point takes its coordinates from two
\* elements.
C18_WholePointsOnly ==
  thrown = "" =>
    LET toks == TokensSinceFailure(Len(doc))
    IN  /\ 3 * Len(points) = Len(toks)
        /\ \A k \in 1 .. Len(points) : \A c \in 1 .. 3 :
             points[k][c] = ValueOf(toks[3 * (k - 1) + c])

\* An element that failed, followed by one that gave a point of different
\* coordinates.
C18_Witness ==
  /\ Len(doc) = 2
  /\ thrown = ""
  /\ Fails(doc[1])
  /\ IsPositionElement(doc[2])
  /\ Len(TokensOf(doc[2].text)) = 3
  /\ Len(points) = 1
  /\ points[1][1] # points[1][2]

(***************************************************************************)
(* C19: the namespace prefix and the recognition of elements.              *)
(***************************************************************************)
\* The last of the nodes of S, the null node when there is none.
LastOf(S) == IF S = {} THEN 0 ELSE CHOOSE i \in S : \A j \in S : j <= i

\* What PolygonsWalker and ObjectsWalker have made of the document.
RecognisedByLocalName ==
  /\ ListsExactly(objects, { i \in Nodes : LocalNameOf(i) \in CityObjectTypes })
  /\ \A i \in Nodes : IsPolygonElement(i) <=> KeysOf(i) # {}
  /\ (doc # <<>> /\ IsSurfaceElement(Len(doc))) => inDefinedType = LocalNameOf(Len(doc))

\* C19 as stated: in all four walkers an element is recognised by its local
\* name: every pos or posList has given its point, the last exterior is the
\* exterior ring, the interiors are the interior rings, whatever the prefix.
C19_PrefixNeverMatters ==
  /\ RecognisedByLocalName
  /\ Len(points) = Cardinality({ i \in Nodes : LocalNameOf(i) \in {"pos", "posList"} })
  /\ exteriorRing = LastOf({ i \in Nodes : LocalNameOf(i) = "exterior" })
  /\ ListsExactly(interiorRings, { i \in Nodes : LocalNameOf(i) = "interior" })

\* C19: PolygonsWalker and ObjectsWalker recognise an element by its local
\* name, whatever the prefix or without one; PointsWalker and RingsWalker
\* recognise the names gml:pos, gml:posList, gml:exterior and gml:interior
\* only, prefix included.
C19_PrefixMattersForGml ==
  /\ RecognisedByLocalName
  /\ Len(points) = Cardinality({ i \in Nodes : IsPositionElement(doc[i]) })
  /\ exteriorRing = LastOf({ i \in Nodes : doc[i].name = <<"gml", "exterior">> })
  /\ ListsExactly(interiorRings, { i \in Nodes : doc[i].name = <<"gml", "interior">> })
  /\ thrown = "" /\ cout = <<>>

\* A posList with another prefix and an exterior without prefix, neither
\* recognised, or a Building with another prefix, recognised, after one of
\* them.
C19_Witness ==
  /\ Len(doc) = 2
  /\ doc[1].name \in { <<"ns", "posList">>, <<"exterior">> }
  /\ doc[2].name \in { <<"ns", "Building">>, <<"exterior">>, <<"gml", "posList">> }
  /\ doc[1].name # doc[2].name
  /\ points = <<>> => objects = <<2>>
  /\ exteriorRing = 0

=============================================================================
